---- MODULE Spec2Model ----
(***************************************************************************)
(* Model of Orange/preprocess/fss.py: SelectBestFeatures.__call__ and      *)
(* RemoveNaNColumns.__call__, two transformations of a data table.         *)
(*                                                                         *)
(* An optional Python value is a sequence of length at most one: None is   *)
(* <<>> and the value v is <<v>>.  A table cell is optional in the same    *)
(* way: <<>> is NaN (missing), <<v>> the known value v.                    *)
(***************************************************************************)
EXTENDS Integers, Sequences, FiniteSets

VARIABLES data, self, pc, op, out, raised, scored

vars == <<data, self, pc, op, out, raised, scored>>

\* ---------------------------------------------------------------- bounds
MaxAttrs == 3
MaxRows == 2
MaxK == 2

ScoreVals == {-1, 0, 1}
ThresholdVals == {-1, 0, 1}

\* ------------------------------------------------------- python helpers
None == <<>>

Some(v) == <<v>>

\* Python truthiness of an optional number: None and 0 are falsy.
Truthy(o) == o # None /\ o[1] # 0

Min(a, b) == IF a <= b THEN a ELSE b

Reverse(s) == [i \in 1..Len(s) |-> s[Len(s) + 1 - i]]

\* isinstance(v, t) for a variable descriptor (or None) and a variable type.
IsInstance(v, t) == v # None /\ v[1].type = t

\* ----------------------------------------------------------- the domain
\* data.domain.class_var: the class variable when there is exactly one.
ClassVar(domain) ==
    IF Len(domain.class_vars) = 1 THEN Some(domain.class_vars[1]) ELSE None

\* Orange.data.Domain(attributes, class_vars, metas)
Domain(attributes, class_vars, metas) ==
    [attributes |-> attributes, class_vars |-> class_vars, metas |-> metas]

IndexOf(seq, x) == CHOOSE i \in 1..Len(seq) : seq[i] = x

\* data.from_table(domain, data) / Orange.data.Table(domain, data): the rows
\* of data projected on the columns of domain.
FromTable(domain, d) ==
    [domain |-> domain,
     X |-> [r \in 1..Len(d.X) |->
              [j \in 1..Len(domain.attributes) |->
                 d.X[r][IndexOf(d.domain.attributes, domain.attributes[j])]]],
     Y |-> [r \in 1..Len(d.Y) |->
              [j \in 1..Len(domain.class_vars) |->
                 d.Y[r][IndexOf(d.domain.class_vars, domain.class_vars[j])]]],
     metas |-> [r \in 1..Len(d.metas) |->
              [j \in 1..Len(domain.metas) |->
                 d.metas[r][IndexOf(d.domain.metas, domain.metas[j])]]]]

\* --------------------------------------------------- SelectBestFeatures
\* line 47: isinstance(data.domain.class_var, self.method.class_type)
ClassOkAlways(d, s) == TRUE

ClassOkNever(d, s) == FALSE

ClassOk(d, s) == IsInstance(ClassVar(d.domain), s.method.class_type)

IsFeature(f, s) == IsInstance(Some(f), s.method.feature_type)

\* lines 51-52
Features(d, s) == SelectSeq(d.domain.attributes, LAMBDA f : IsFeature(f, s))

\* lines 53-54
OtherAll(d, s) == d.domain.attributes

Other(d, s) == SelectSeq(d.domain.attributes, LAMBDA f : ~IsFeature(f, s))

\* self.method(f, data)
Method(s, f, d) == s.method.score[f.name]

\* line 55 with the zip of line 56: the (score, feature) pairs
Scores(d, s) ==
    LET fs == Features(d, s)
    IN  [i \in 1..Len(fs) |-> <<Method(s, fs[i], d), fs[i]>>]

\* Insertion of x after every element whose key is <= the key of x.
RECURSIVE Insert(_, _)
Insert(sorted, x) ==
    IF sorted = <<>> THEN <<x>>
    ELSE IF sorted[Len(sorted)][1] <= x[1] THEN Append(sorted, x)
    ELSE Append(Insert(SubSeq(sorted, 1, Len(sorted) - 1), x),
                sorted[Len(sorted)])

\* A stable ascending sort on the key itemgetter(0).
RECURSIVE StableSort(_)
StableSort(seq) ==
    IF seq = <<>> THEN <<>>
    ELSE Insert(StableSort(SubSeq(seq, 1, Len(seq) - 1)), seq[Len(seq)])

SortedUnstableReverse(seq, reverse) ==
    IF reverse THEN Reverse(StableSort(seq)) ELSE StableSort(seq)

SortedNot(seq, reverse) == seq

\* sorted(seq, key=itemgetter(0), reverse=reverse): with reverse the list is
\* reversed, sorted stably, and reversed again, so equal keys keep their order.
Sorted(seq, reverse) ==
    IF reverse THEN Reverse(StableSort(Reverse(seq))) ELSE StableSort(seq)

\* best[:k] for k >= 0
Slice(seq, k) == SubSeq(seq, 1, Min(k, Len(seq)))

\* lines 61-62
Pred(s, x) ==
    IF s.decreasing THEN x[1] >= s.threshold[1] ELSE x[1] <= s.threshold[1]

\* itertools.takewhile
RECURSIVE TakeWhile(_, _)
TakeWhile(s, seq) ==
    IF seq = <<>> THEN <<>>
    ELSE IF Pred(s, seq[1]) THEN <<seq[1]>> \o TakeWhile(s, Tail(seq))
    ELSE <<>>

\* lines 56-63
Best(d, s) ==
    LET sorted == Sorted(Scores(d, s), s.decreasing)
        cut == IF Truthy(s.k) THEN Slice(sorted, s.k[1]) ELSE sorted
    IN  IF Truthy(s.threshold) THEN TakeWhile(s, cut) ELSE cut

SelectDomainNoMetas(d, s) ==
    LET best == Best(d, s)
    IN  Domain([i \in 1..Len(best) |-> best[i][2]] \o Other(d, s),
               d.domain.class_vars, <<>>)

\* lines 65-66
SelectDomain(d, s) ==
    LET best == Best(d, s)
    IN  Domain([i \in 1..Len(best) |-> best[i][2]] \o Other(d, s),
               d.domain.class_vars, d.domain.metas)

\* ----------------------------------------------------- RemoveNaNColumns
IsNaN(c) == c = <<>>

NanColAny(d, j) == \E r \in 1..Len(d.X) : IsNaN(d.X[r][j])

\* line 79: np.all(np.isnan(data.X), axis=0)[j]
NanCol(d, j) == \A r \in 1..Len(d.X) : IsNaN(d.X[r][j])

\* lines 80-82
NaNDomain(d) ==
    LET attrs == d.domain.attributes
        keep == {j \in 1..Len(attrs) : ~NanCol(d, j)}
        RECURSIVE Att(_)
        Att(j) == IF j = 0 THEN <<>>
                  ELSE IF j \in keep THEN Append(Att(j - 1), attrs[j])
                  ELSE Att(j - 1)
    IN  Domain(Att(Len(attrs)), d.domain.class_vars, d.domain.metas)

\* ------------------------------------------------------------ the inputs
ClassVarLists ==
    { <<>>,
      <<[name |-> 0, type |-> "DiscreteVariable"]>>,
      <<[name |-> 0, type |-> "ContinuousVariable"]>> }

MetaVar == [name |-> 0, type |-> "StringVariable"]

AttrTypes == {"ContinuousVariable", "DiscreteVariable"}

TheMethod(score) ==
    [class_type |-> "DiscreteVariable", feature_type |-> "ContinuousVariable",
     score |-> score]

Optional(S) == {None} \cup {Some(v) : v \in S}

\* Tables whose cells are known and pairwise different, with a selector of
\* every configuration and a scoring method of every score assignment.
InitSelect ==
    \E n \in 0..MaxAttrs, rows \in 0..MaxRows :
    \E types \in [1..n -> AttrTypes], cvs \in ClassVarLists :
    \E score \in [{i \in 1..n : types[i] = "ContinuousVariable"} -> ScoreVals] :
    \E k \in Optional(0..MaxK), threshold \in Optional(ThresholdVals),
       decreasing \in BOOLEAN :
       /\ data = [domain |-> Domain([i \in 1..n |-> [name |-> i, type |-> types[i]]],
                                    cvs, <<MetaVar>>),
                  X |-> [r \in 1..rows |-> [j \in 1..n |-> Some(10 * r + j)]],
                  Y |-> [r \in 1..rows |-> [j \in 1..Len(cvs) |-> Some(r)]],
                  metas |-> [r \in 1..rows |-> <<Some(r)>>]]
       /\ self = [method |-> TheMethod(score), k |-> k,
                  threshold |-> threshold, decreasing |-> decreasing]

\* Tables with every pattern of missing values in the attribute and class
\* columns and a meta column that is missing throughout.
InitNaN ==
    \E n \in 0..MaxAttrs, rows \in 0..MaxRows :
    \E X \in [1..rows -> [1..n -> Optional({1})]],
       Y \in [1..rows -> [1..1 -> Optional({1})]] :
       /\ data = [domain |-> Domain([i \in 1..n |->
                                       [name |-> i, type |-> "ContinuousVariable"]],
                                    <<[name |-> 0, type |-> "DiscreteVariable"]>>,
                                    <<MetaVar>>),
                  X |-> X, Y |-> Y,
                  metas |-> [r \in 1..rows |-> <<None>>]]
       /\ self = [method |-> TheMethod([i \in 1..n |-> 0]), k |-> None,
                  threshold |-> None, decreasing |-> TRUE]

Init ==
    /\ InitSelect \/ InitNaN
    /\ pc = "idle"
    /\ op = "none"
    /\ out = None
    /\ raised = "none"
    /\ scored = <<>>

\* ----------------------------------------------------------- the actions
\* SelectBestFeatures.__call__(data)
SelectBestFeatures_call ==
    /\ pc = "idle"
    /\ pc' = "done"
    /\ op' = "SelectBestFeatures"
    /\ IF ~ClassOk(data, self)
       THEN /\ raised' = "ValueError"
            /\ scored' = <<>>
            /\ out' = None
       ELSE /\ raised' = "none"
            /\ scored' = Features(data, self)
            /\ out' = Some(FromTable(SelectDomain(data, self), data))
    /\ UNCHANGED <<data, self>>

\* RemoveNaNColumns.__call__(data)
RemoveNaNColumns_call ==
    /\ pc = "idle"
    /\ pc' = "done"
    /\ op' = "RemoveNaNColumns"
    /\ raised' = "none"
    /\ out' = Some(FromTable(NaNDomain(data), data))
    /\ UNCHANGED <<data, self, scored>>

Next == SelectBestFeatures_call \/ RemoveNaNColumns_call

Spec == Init /\ [][Next]_vars

\* ------------------------------------------------ vocabulary of the claims
Range(seq) == {seq[i] : i \in 1..Len(seq)}

InAttrs == data.domain.attributes

OutAttrs == out[1].domain.attributes

SelectDone == pc = "done" /\ op = "SelectBestFeatures"

SelectOk == SelectDone /\ raised = "none" /\ out # None

RemoveDone == pc = "done" /\ op = "RemoveNaNColumns" /\ out # None

Scorable(f) == f.type = self.method.feature_type

InScorable == SelectSeq(InAttrs, Scorable)

OutScored == SelectSeq(OutAttrs, Scorable)

ScoreOf(f) == self.method.score[f.name]

Pos(f) == CHOOSE i \in 1..Len(InAttrs) : InAttrs[i] = f

\* f precedes g in the configured order, ties broken by the original order
Before(f, g) ==
    \/ IF self.decreasing THEN ScoreOf(f) > ScoreOf(g) ELSE ScoreOf(f) < ScoreOf(g)
    \/ ScoreOf(f) = ScoreOf(g) /\ Pos(f) < Pos(g)

IsRanked(seq) == \A i, j \in 1..Len(seq) : i < j => Before(seq[i], seq[j])

Rank(f) == 1 + Cardinality({g \in Range(InScorable) : Before(g, f)})

Meets(f) ==
    IF self.decreasing THEN ScoreOf(f) >= self.threshold[1]
    ELSE ScoreOf(f) <= self.threshold[1]

KPositive == self.k # None /\ self.k[1] > 0

ClassMatches ==
    /\ Len(data.domain.class_vars) = 1
    /\ data.domain.class_vars[1].type = self.method.class_type

\* ------------------------------------------------------------ the claims

\* C1: with only a threshold supplied (k unset, decreasing=True), for every
\* numeric threshold including 0, the scored attributes of the output are
\* exactly the maximal prefix of the score-descending list with score >=
\* threshold: ranked, and exactly the scorable attributes meeting the threshold.
C1_ThresholdOnlyPrefix ==
    (SelectOk /\ self.k = None /\ self.threshold # None /\ self.decreasing)
    => /\ IsRanked(OutScored)
       /\ Range(OutScored) = {f \in Range(InScorable) : Meets(f)}

\* C2: with only a positive k supplied, for either order, the output holds
\* exactly min(k, |scorable|) scored attributes, they are the first k of the
\* scorable attributes in the configured order, and attributes of equal score
\* keep their original relative order.
C2_TopK ==
    (SelectOk /\ KPositive /\ self.threshold = None)
    => /\ Len(OutScored) = Min(self.k[1], Len(InScorable))
       /\ IsRanked(OutScored)
       /\ \A f \in Range(OutScored) :
            \A g \in Range(InScorable) \ Range(OutScored) : Before(f, g)

C2_Witness ==
    /\ SelectOk /\ KPositive /\ self.threshold = None /\ self.decreasing
    /\ Len(InScorable) > self.k[1]
    /\ \E f \in Range(OutScored) :
         \E g \in Range(InScorable) \ Range(OutScored) : ScoreOf(f) = ScoreOf(g)
    /\ \E f, g \in Range(OutScored) : f # g /\ ScoreOf(f) = ScoreOf(g)

\* C3: with both a positive k and a threshold supplied, the output has at most
\* k scored attributes and each of them is among the top k by score and meets
\* the threshold under the configured order.
C3_KAndThreshold ==
    (SelectOk /\ KPositive /\ self.threshold # None)
    => /\ Len(OutScored) <= self.k[1]
       /\ \A f \in Range(OutScored) : Rank(f) <= self.k[1] /\ Meets(f)

\* C4: on a table whose class variable is not of the kind method.class_type
\* the call raises, the scoring method has been invoked on no feature, no
\* output table exists, and the input table is never changed.
C4_MismatchRaises ==
    /\ []((SelectDone /\ ~ClassMatches)
          => (raised = "ValueError" /\ scored = <<>> /\ out = None))
    /\ [][data' = data]_vars

C4_Witness ==
    /\ SelectDone /\ ~ClassMatches /\ raised = "ValueError"
    /\ Len(data.domain.class_vars) = 1
    /\ Len(InScorable) >= 2

\* C5: for every successful selection the output attributes are input
\* attributes, none occurs twice, every attribute not matching
\* method.feature_type is present, these keep their original relative order
\* and all come after every selected scored attribute.
C5_OtherKept ==
    SelectOk
    => /\ Range(OutAttrs) \subseteq Range(InAttrs)
       /\ \A i, j \in 1..Len(OutAttrs) : OutAttrs[i] = OutAttrs[j] => i = j
       /\ SelectSeq(OutAttrs, LAMBDA f : ~Scorable(f))
            = SelectSeq(InAttrs, LAMBDA f : ~Scorable(f))
       /\ \A i, j \in 1..Len(OutAttrs) :
            (~Scorable(OutAttrs[i]) /\ Scorable(OutAttrs[j])) => j < i

C5_Witness ==
    /\ SelectOk
    /\ Len(OutScored) >= 1
    /\ Len(OutScored) < Len(InScorable)
    /\ Len(InAttrs) - Len(InScorable) >= 1
    /\ ~Scorable(InAttrs[1])

\* C6: the output attributes of RemoveNaNColumns are exactly the input
\* attributes with at least one non-missing value over all rows, in their
\* original order; class and meta variables are kept even when all their
\* values are missing.
HasKnownValue(f) == \E r \in 1..Len(data.X) : data.X[r][Pos(f)] # <<>>

C6_RemoveNaN ==
    RemoveDone
    => /\ OutAttrs = SelectSeq(InAttrs, HasKnownValue)
       /\ out[1].domain.class_vars = data.domain.class_vars
       /\ out[1].domain.metas = data.domain.metas

C6_Witness ==
    /\ RemoveDone
    /\ Len(data.X) >= 2
    /\ \E f \in Range(InAttrs) : ~HasKnownValue(f)
    /\ \E f \in Range(InAttrs) :
         /\ HasKnownValue(f)
         /\ \E r \in 1..Len(data.X) : data.X[r][Pos(f)] = <<>>
    /\ \A r \in 1..Len(data.Y) : data.Y[r] = <<None>>
    /\ \A r \in 1..Len(data.metas) : data.metas[r] = <<None>>

\* C7: on every successful call of either operation the output has as many
\* rows as the input, its class-variable and meta-variable lists equal the
\* input's, and the input table is left unchanged.
C7_Frame ==
    /\ []((pc = "done" /\ raised = "none" /\ out # None)
          => /\ Len(out[1].X) = Len(data.X)
             /\ Len(out[1].Y) = Len(data.X)
             /\ Len(out[1].metas) = Len(data.X)
             /\ out[1].domain.class_vars = data.domain.class_vars
             /\ out[1].domain.metas = data.domain.metas)
    /\ [][data' = data]_vars

C7_Witness ==
    /\ SelectOk
    /\ Len(data.X) >= 2
    /\ Len(OutAttrs) < Len(InAttrs)
    /\ Len(data.domain.metas) >= 1

\* C8: with decreasing=False the scored attributes are in ascending order of
\* score, and when a threshold is supplied the kept scored attributes are the
\* prefix of the ascending list (after any k-truncation) with score <=
\* threshold: none with a score above the threshold is in the output.
C8_Ascending ==
    (SelectOk /\ ~self.decreasing)
    => /\ \A i, j \in 1..Len(OutScored) :
            i < j => ScoreOf(OutScored[i]) <= ScoreOf(OutScored[j])
       /\ self.threshold # None
            => \A f \in Range(OutScored) : ScoreOf(f) <= self.threshold[1]

\* C9: on a table whose class variable matches method.class_type the call
\* raises no error for any k, threshold and order; when no attribute matches
\* method.feature_type the scoring method is never invoked and the output
\* attribute list is the input attribute list in its original order.
C9_NoError ==
    (SelectDone /\ ClassMatches)
    => /\ raised = "none"
       /\ out # None
       /\ InScorable = <<>> => (scored = <<>> /\ OutAttrs = InAttrs)

C9_Witness ==
    /\ SelectOk /\ ClassMatches
    /\ InScorable = <<>>
    /\ Len(InAttrs) >= 2
    /\ KPositive
    /\ Truthy(self.threshold)

\* C10: the threshold cut runs on a list sorted by score, so the prefix cut
\* keeps what a filter on the threshold predicate would keep, no attribute
\* within the first k that passes the threshold is discarded, and truncating
\* to k before the cut equals filtering first and truncating afterwards.
KCut(seq) == IF Truthy(self.k) THEN Slice(seq, self.k[1]) ELSE seq

Passes(x) == Pred(self, x)

C10_PrefixIsFilter ==
    (SelectOk /\ self.threshold # None)
    => LET sorted == Sorted(Scores(data, self), self.decreasing)
           cut == KCut(sorted)
           kept == TakeWhile(self, cut)
       IN  /\ kept = SelectSeq(cut, Passes)
           /\ kept = KCut(SelectSeq(sorted, Passes))
           /\ \A i \in 1..Len(cut) : Passes(cut[i]) => cut[i][2] \in Range(OutScored)
           /\ Truthy(self.threshold)
                => OutScored = [i \in 1..Len(kept) |-> kept[i][2]]

C10_Witness ==
    /\ SelectOk /\ Truthy(self.threshold) /\ KPositive
    /\ Len(InScorable) > self.k[1]
    /\ Len(OutScored) >= 1
    /\ Len(OutScored) < self.k[1]

====
